---- MODULE Spec2Model ----
(***************************************************************************)
(* Model of the bcskins-inspect gateway: the Inspect Coordinator           *)
(* (InspectService, src/src/modules/inspect/inspect.service.ts), the       *)
(* Worker Shard (BotWorker, src/unnamed/part_001) and, from spec.md, the   *)
(* collaborators whose code is not in the tree: QueueService (spec 4.3),   *)
(* WorkerManagerService (spec 4.4) and Bot (spec 4.1).                     *)
(*                                                                         *)
(* Time is discrete.  The QUEUE_TIMEOUT timers of the coordinator are      *)
(* countdowns; a timer that has reached 0 is due and Tick is disabled      *)
(* until it has fired (Node fires a due timer in the next loop iteration). *)
(* The inspect timeout and the cooldown of a bot are events that may       *)
(* happen at any time.  QUEUE_TIMEOUT and MAX_RETRIES are read from the    *)
(* environment; the model runs with small values of them and draws         *)
(* MAX_QUEUE_SIZE from 1..MaxQueueSize.                                    *)
(***************************************************************************)
EXTENDS Integers, Sequences, FiniteSets, TLC

\* ---- bounds of the model
MaxCalls == 2
NumAssets == 2
NumShards == 2
BotsPerShard == 1
MaxQueueSize == 2

\* ---- program constants (process.env.QUEUE_TIMEOUT in ticks,
\* process.env.MAX_RETRIES)
QUEUE_TIMEOUT == 1
MAX_RETRIES == 1

Calls == 1..MaxCalls
Assets == 1..NumAssets
Shards == 1..NumShards
Bots == 1..(NumShards * BotsPerShard)

\* workerData.accounts: the partition of the accounts over the shards
ShardOf(b) == ((b - 1) \div BotsPerShard) + 1
BotsOf(s) == {b \in Bots : ShardOf(b) = s}

VARIABLES
    MAX_QUEUE_SIZE,   \* process.env.MAX_QUEUE_SIZE, fixed at construction
    ALLOW_REFRESH,    \* process.env.ALLOW_REFRESH = 'true'
    call,             \* inspectItem invocations (one record per HTTP request)
    queue,            \* QueueService: assetId -> entry
    pending,          \* WorkerManagerService: pending-request table by assetId
    down,             \* parentPort messages manager -> shard (FIFO)
    up,               \* parentPort messages shard -> manager (FIFO)
    bot,              \* BotWorker.bots: the Bot instances of every shard
    assets,           \* assetModel: assetIds that have a stored record
    success, cached, failed, timeouts,   \* InspectService counters
    mgrCached,        \* WorkerManagerService.incrementCached()
    currentRequests   \* InspectService.currentRequests

\* ---- bounds of the model of one shard's life cycle
NumAccounts == 2
MaxHealthChecks == 2
MaxShutdowns == 2

\* the accounts of the shard's partition, by their place in workerData.accounts
Users == 1..NumAccounts

VARIABLES
    accounts,          \* BotWorker.accounts: the credential lines, as users
    bots,              \* BotWorker.bots: username -> state of the registered Bot
    throttledAccounts, \* BotWorker.throttledAccounts: entries not yet expired
    disabled,          \* users whose initialisation ended with ACCOUNT_DISABLED
    started,           \* the login the last step started, if any
    initRun,           \* the run of initializeBots
    hc,                \* the runs of performHealthCheck
    sd,                \* the runs of shutdown
    completed,         \* shutdown{status:"completed"} messages sent
    exited,            \* process.exit(0) was called
    reconnect,         \* per registered Bot: reconnect timers set, permanent failure
    failedAccounts,    \* BotWorker.failedAccounts: the age of the entry of a user
    lastFailure        \* history: the age of the last failed initialize() of a user

\* the state of one shard's life cycle
shard == <<accounts, bots, throttledAccounts, disabled, started, initRun, hc,
           sd, completed, exited, reconnect, failedAccounts, lastFailure>>

\* the recovery state of the shard's bots and accounts
recovery == <<reconnect, failedAccounts, lastFailure>>

\* the state of the coordinator, the manager and the fleet
coord == <<MAX_QUEUE_SIZE, ALLOW_REFRESH, call, queue, pending, down, up, bot,
           assets, success, cached, failed, timeouts, mgrCached,
           currentRequests>>

VARIABLES
    obs,               \* the last classification or identifier computed
    item,              \* the items of the game: itemid -> inspect response
    assetRows,         \* assetModel: the documents of inspect_assets
    historyRows,       \* historyModel: the documents of inspect_history
    handler            \* the runs of InspectService.handleInspectResult

\* the persistence store and the handlers working on it
db == <<item, assetRows, historyRows, handler>>

vars == <<MAX_QUEUE_SIZE, ALLOW_REFRESH, call, queue, pending, down, up, bot, assets,
          success, cached, failed, timeouts, mgrCached, currentRequests,
          accounts, bots, throttledAccounts, disabled, started, initRun, hc,
          sd, completed, exited, reconnect, failedAccounts, lastFailure, obs,
          item, assetRows, historyRows, handler>>

\* the environment of the process: it never changes
env == <<MAX_QUEUE_SIZE, ALLOW_REFRESH>>

counters == <<success, cached, failed, timeouts, mgrCached>>
fleet == <<down, up, bot>>

\* ------------------------------------------------------------------------
\* QueueService (spec 4.3): a table keyed by assetId, bounded by
\* MAX_QUEUE_SIZE; add coalesces onto an entry that already exists.

size(q) == Cardinality(DOMAIN q)

isFull(q) == size(q) >= MAX_QUEUE_SIZE

add(q, a) ==
    IF a \in DOMAIN q THEN q                                  \* Coalesced
    ELSE IF size(q) >= MAX_QUEUE_SIZE THEN q                  \* Full
    ELSE [x \in DOMAIN q \cup {a} |->
            IF x = a THEN [age |-> 0, retryCount |-> 0] ELSE q[x]]

remove(q, a) == [x \in DOMAIN q \ {a} |-> q[x]]

\* InspectService.inspects, lines 26-36: a map the class declares and no
\* line of it writes
inspects == <<>>

\* stats(), lines 84-94 and 111-115: service.queue of the snapshot, with the
\* entries of queueService.getQueueMetrics().items, one count for each
\* under its priority, given as their number
stats ==
    [current |-> size(inspects), max |-> MAX_QUEUE_SIZE,
     priorities |-> size(queue)]

\* ------------------------------------------------------------------------
\* The call record.  t counts the ticks left to the deadline of the call's
\* setTimeout (QUEUE_TIMEOUT at admission, -1 once it is past or unused);
\* armed says whether the timer is still set.  cacheErr is history: the
\* cache lookup of the call failed.

NewCall == [pc |-> "new", a |-> 1, reply |-> TRUE, res |-> "none",
            t |-> -1, armed |-> FALSE, cacheErr |-> FALSE]

\* The response has been sent and no timer of the call is left: only the
\* asset, the outcome and the history of the lookup are kept.
Norm(r) ==
    IF r.pc = "done" /\ ~r.armed
    THEN [NewCall EXCEPT !.pc = "done", !.a = r.a, !.res = r.res,
                         !.cacheErr = r.cacheErr]
    ELSE r

\* String.prototype.startsWith
startsWith(str, prefix) ==
    Len(prefix) <= Len(str) /\ SubSeq(str, 1, Len(prefix)) = prefix

\* the username of user u: "a", "aa", ...
UserName(u) == [k \in 1..u |-> "a"]

\* the credential line of user u, "username:password"
Account(u) == UserName(u) \o <<":", "p">>

\* a run of initializeBots or of retryFailedAccountInitialization that is
\* not awaiting a login
NoRun == [pc |-> "idle", arr |-> <<>>, i |-> 0, retryCount |-> 0]

\* a run of shutdown that has not started
NoShutdown == [pc |-> "idle", left |-> {}, failed |-> FALSE]

\* no login was started by the last step and scheduleReconnect() was called
\* on no bot
NoLogin == [by |-> "none", u |-> 0, walk |-> FALSE, reconnects |-> {}]

\* a Bot as constructed: no reconnect timer is set, it has not failed for good
NewReconnect == [scheduled |-> 0, permanentlyFailed |-> FALSE]

\* constructor, lines 476-490: initializeBots runs up to its first await,
\* the login of the first account (lines 579-684)
InitShard ==
    /\ accounts = [u \in Users |-> u]
    /\ bots = [u \in Users |-> "none"]
    /\ throttledAccounts = {}
    /\ disabled = {}
    /\ started = [NoLogin EXCEPT !.by = "init", !.u = 1]
    /\ initRun = [pc |-> "login", arr |-> [u \in Users |-> u], i |-> 1,
                  retryCount |-> 0]
    /\ hc = [k \in 1..MaxHealthChecks |-> NoRun]
    /\ sd = [k \in 1..MaxShutdowns |-> NoShutdown]
    /\ completed = 0
    /\ exited = FALSE
    /\ reconnect = [u \in Users |-> NewReconnect]
    /\ failedAccounts = [u \in Users |-> "none"]
    /\ lastFailure = [u \in Users |-> "none"]

\* InspectService, QueueService and the fleet after construction
InitCoord ==
    /\ call = [c \in Calls |-> NewCall]
    /\ queue = <<>>
    /\ pending = <<>>
    /\ down = [s \in Shards |-> <<>>]
    /\ up = [s \in Shards |-> <<>>]
    /\ bot = [b \in Bots |-> [st |-> "ready", a |-> 0, n |-> 0]]
    /\ assets = {}
    /\ success = 0 /\ cached = 0 /\ failed = 0 /\ timeouts = 0
    /\ mgrCached = 0
    /\ currentRequests = 0

\* nothing was computed yet
NoObs == <<>>

\* the store is empty and no result is being handled
InitDb ==
    /\ obs = NoObs
    /\ item = <<>>
    /\ assetRows = <<>>
    /\ historyRows = <<>>
    /\ handler = <<>>

Init ==
    /\ MAX_QUEUE_SIZE \in 1..MaxQueueSize
    /\ ALLOW_REFRESH \in BOOLEAN
    /\ InitCoord
    /\ InitShard
    /\ InitDb

\* The main thread runs each handler to completion: a new event is taken
\* only when no cache lookup is being answered, no pending request awaits
\* its dispatch and no message of a shard awaits the manager.
Idle ==
    /\ \A c \in Calls : call[c].pc # "cache"
    /\ \A a \in DOMAIN pending : pending[a].st # "queued"
    /\ \A s \in Shards : up[s] = <<>>

\* ------------------------------------------------------------------------
\* WorkerManagerService (spec 4.4).  inspectItem: a submission for an asset
\* that is already pending awaits the same completion, any other one gets
\* a new pending request that waits for dispatch.

\* Variant: every submission opens a pending request of its own, as a table
\* keyed by requestId would.
mgrInspectItem_noDedup(p, a, c) ==
    [x \in DOMAIN p \cup {a} |->
        IF x = a THEN [st |-> "queued", w |-> {c}] ELSE p[x]]

mgrInspectItem(p, a, c) ==
    IF a \in DOMAIN p
    THEN [p EXCEPT ![a].w = @ \cup {c}]
    ELSE [x \in DOMAIN p \cup {a} |->
            IF x = a THEN [st |-> "queued", w |-> {c}] ELSE p[x]]

\* ------------------------------------------------------------------------
\* InspectService.inspectItem

\* Variant: the capacity test is off by one (size > MAX_QUEUE_SIZE).
queueFull_offByOne == size(queue) > MAX_QUEUE_SIZE

\* line 159: if (this.queueService.isFull())
queueFull == isFull(queue)

\* Variant: the rejection is counted as a failed inspect.
RejectQueueFull_counted(c, r) ==
    /\ call' = [call EXCEPT ![c] = Norm([r EXCEPT !.pc = "done", !.res = "e429"])]
    /\ failed' = failed + 1
    /\ UNCHANGED <<queue, pending, success, timeouts>>

\* lines 160-163: throw HttpException(..., TOO_MANY_REQUESTS)
RejectQueueFull(c, r) ==
    /\ call' = [call EXCEPT ![c] = Norm([r EXCEPT !.pc = "done", !.res = "e429"])]
    /\ UNCHANGED <<queue, pending, success, failed, timeouts>>

\* Variant: a reply=false call waits for the outcome like a reply=true call.
Enqueue_bgWaits(c, r) ==
    /\ call' = [call EXCEPT ![c] =
                   [r EXCEPT !.pc = "wait", !.res = "none",
                             !.t = QUEUE_TIMEOUT, !.armed = TRUE]]
    /\ queue' = add(queue, r.a)
    /\ pending' = mgrInspectItem(pending, r.a, c)
    /\ UNCHANGED <<success, failed, timeouts>>

\* lines 166-232 and 238-284, up to the first suspension: the timer is set,
\* the entry is added and the worker manager is asked, in one synchronous
\* block.  A reply=false call returns its acknowledgement at once.
Enqueue(c, r) ==
    /\ call' = [call EXCEPT ![c] =
                   [r EXCEPT !.pc = "wait",
                             !.res = IF r.reply THEN "none" ELSE "ack",
                             !.t = QUEUE_TIMEOUT, !.armed = TRUE]]
    /\ queue' = add(queue, r.a)
    /\ pending' = mgrInspectItem(pending, r.a, c)
    /\ UNCHANGED <<success, failed, timeouts>>

\* lines 159-232: what follows the cache lookup
Admit(c, r) ==
    IF queueFull THEN RejectQueueFull(c, r) ELSE Enqueue(c, r)

\* lines 144-157: the call starts; with refresh the cache is not consulted
\* and the call runs on to the admission without suspending.
inspectItem(c, a, rf, rp) ==
    /\ Idle
    /\ call[c].pc = "new"
    /\ \A d \in Calls : d < c => call[d].pc # "new"
    /\ currentRequests' = currentRequests + 1
    /\ LET r == [NewCall EXCEPT !.pc = "cache", !.a = a, !.reply = rp]
       IN  IF rf
           THEN Admit(c, r)
           ELSE /\ call' = [call EXCEPT ![c] = r]
                /\ UNCHANGED <<queue, pending, success, failed, timeouts>>
    /\ UNCHANGED <<fleet, assets, cached, mgrCached, env, shard, obs, db>>

\* Variant: the stored record is looked up under another key and is never
\* found.
cacheHit_otherKey(a, err) == ~err /\ (a + NumAssets) \in assets

\* lines 324-336: findOne({assetId}); an error of the store is caught and
\* the lookup answers null.
cacheHit(a, err) == ~err /\ a \in assets

\* Variant: checkCache has no try/catch and the error of the store fails the
\* request.
checkCache_throws(c, err) ==
    /\ call[c].pc = "cache"
    /\ LET r == call[c] IN
       IF err
       THEN /\ call' = [call EXCEPT ![c] =
                          Norm([r EXCEPT !.pc = "done", !.res = "e500",
                                         !.cacheErr = TRUE])]
            /\ UNCHANGED <<queue, pending, success, failed, timeouts,
                           cached, mgrCached>>
       ELSE IF cacheHit(r.a, err)
       THEN /\ call' = [call EXCEPT ![c] =
                          Norm([r EXCEPT !.pc = "done", !.res = "cached"])]
            /\ cached' = cached + 1
            /\ mgrCached' = mgrCached + 1
            /\ UNCHANGED <<queue, pending, success, failed, timeouts>>
       ELSE /\ Admit(c, r)
            /\ UNCHANGED <<cached, mgrCached>>
    /\ UNCHANGED <<fleet, assets, currentRequests, env, shard, obs, db>>

\* lines 150-157 after the await: a hit is counted and returned, a miss
\* goes on to the admission.
checkCache(c, err) ==
    /\ call[c].pc = "cache"
    /\ LET r == call[c] IN
       IF cacheHit(r.a, err)
       THEN /\ call' = [call EXCEPT ![c] =
                          Norm([r EXCEPT !.pc = "done", !.res = "cached"])]
            /\ cached' = cached + 1
            /\ mgrCached' = mgrCached + 1
            /\ UNCHANGED <<queue, pending, success, failed, timeouts>>
       ELSE /\ Admit(c, [r EXCEPT !.cacheErr = err])
            /\ UNCHANGED <<cached, mgrCached>>
    /\ UNCHANGED <<fleet, assets, currentRequests, env, shard, obs, db>>

\* lines 181-184 (reply=true): timeouts++, reject with 504;
\* lines 252-256 (reply=false): timeouts++, queueService.remove(a).
Timer(c) ==
    /\ Idle
    /\ call[c].armed /\ call[c].t = 0
    /\ timeouts' = timeouts + 1
    /\ call' = [call EXCEPT ![c] =
                  Norm([@ EXCEPT !.armed = FALSE, !.t = -1,
                                 !.res = IF @ = "none" THEN "e504" ELSE @])]
    /\ queue' = IF call[c].reply THEN queue ELSE remove(queue, call[c].a)
    /\ UNCHANGED <<pending, fleet, assets, success, cached, failed,
                   mgrCached, currentRequests, env, shard, obs, db>>

\* .then of workerManagerService.inspectItem, up to its first await.
\* lines 200-203 (reply=true): clearTimeout, success++, then the result is
\* handled; lines 264-266 (reply=false): the result is handled.
thenStart(r) ==
    IF r.reply
    THEN [r EXCEPT !.pc = "then", !.armed = FALSE,
                   !.t = IF r.res = "none" THEN @ ELSE -1]
    ELSE [r EXCEPT !.pc = "then"]

\* Variant: the rejection of the worker manager is not passed on; the caller
\* is left to its timer.
catch_waits(r) == r

\* .catch: lines 222-231 (reply=true): failed++, clearTimeout, remove,
\* reject with 504; lines 277-280 (reply=false): remove.
catch(r) ==
    IF r.reply
    THEN Norm([r EXCEPT !.pc = "done", !.armed = FALSE, !.t = -1,
                        !.res = IF @ = "none" THEN "e504" ELSE @])
    ELSE Norm([r EXCEPT !.pc = "done"])

\* Variant: a failure of the result processing is answered with 504.
handleInspectResult_fail504(c, ok) ==
    /\ Idle
    /\ call[c].pc = "then"
    /\ assets' = IF ok THEN assets \cup {call[c].a} ELSE assets
    /\ queue' = remove(queue, call[c].a)
    /\ failed' = IF ~ok /\ call[c].reply THEN failed + 1 ELSE failed
    /\ call' = [call EXCEPT ![c] =
                  Norm([@ EXCEPT !.pc = "done",
                                 !.res = IF @ # "none" THEN @
                                         ELSE IF ok THEN "ok" ELSE "e504"])]
    /\ UNCHANGED <<pending, fleet, success, cached, timeouts, mgrCached,
                   currentRequests, env, shard, obs, db>>

\* lines 204-220 and 265-275, after the await of handleInspectResult (lines
\* 286-322): on success the asset is upserted (saveAsset, lines 460-494),
\* the entry removed and the caller resolved; on failure (an error of the
\* store, nothing is written) failed++ (reply=true only), the entry removed
\* and the caller rejected with 500.  A caller whose timer has fired keeps
\* the 504 it was given.
handleInspectResult(c, ok) ==
    /\ Idle
    /\ call[c].pc = "then"
    /\ assets' = IF ok THEN assets \cup {call[c].a} ELSE assets
    /\ queue' = remove(queue, call[c].a)
    /\ failed' = IF ~ok /\ call[c].reply THEN failed + 1 ELSE failed
    /\ call' = [call EXCEPT ![c] =
                  Norm([@ EXCEPT !.pc = "done",
                                 !.res = IF @ # "none" THEN @
                                         ELSE IF ok THEN "ok" ELSE "e500"])]
    /\ UNCHANGED <<pending, fleet, success, cached, timeouts, mgrCached,
                   currentRequests, env, shard, obs, db>>

\* ------------------------------------------------------------------------
\* WorkerManagerService (spec 4.4): completion, retry and dispatch.

\* the promise of every submission attached to the pending request resolves
ResolveAll(a) ==
    LET W == pending[a].w IN
    /\ call' = [c \in Calls |-> IF c \in W THEN thenStart(call[c]) ELSE call[c]]
    /\ success' = success + Cardinality({c \in W : call[c].reply})
    /\ pending' = remove(pending, a)
    /\ UNCHANGED <<queue, failed>>

\* the promise of every submission attached to the pending request rejects
RejectAll(a) ==
    LET W == pending[a].w IN
    /\ call' = [c \in Calls |-> IF c \in W THEN catch(call[c]) ELSE call[c]]
    /\ failed' = failed + Cardinality({c \in W : call[c].reply})
    /\ queue' = remove(queue, a)
    /\ pending' = remove(pending, a)
    /\ UNCHANGED success

\* Retry policy: only if retryCount < MAX_RETRIES and the deadline of the
\* entry has not passed.
CanRetry(a) ==
    /\ a \in DOMAIN queue
    /\ queue[a].retryCount < MAX_RETRIES
    /\ queue[a].age < QUEUE_TIMEOUT

Retry(a) ==
    /\ queue' = [queue EXCEPT ![a].retryCount = @ + 1]
    /\ pending' = [pending EXCEPT ![a].st = "queued"]
    /\ UNCHANGED <<call, success, failed>>

\* readyBots of the last stats snapshot of shard s.  The shard sends stats
\* after every status change (part_001 lines 1003, 1042); the snapshot is
\* taken to be current, so the manager is stale only about the inspectItem
\* messages still in flight.
view(s) == Cardinality({b \in BotsOf(s) : bot[b].st = "ready"})

\* Dispatch: a shard with at least one Ready bot in its last snapshot, any
\* of them (weighted random choice); NoBotsReady when there is none.
MgrDispatch(a) ==
    /\ a \in DOMAIN pending /\ pending[a].st = "queued"
    /\ IF \E s \in Shards : view(s) >= 1
       THEN /\ \E s \in Shards :
                 /\ view(s) >= 1
                 /\ down' = [down EXCEPT ![s] = Append(@, a)]
            /\ pending' = [pending EXCEPT ![a].st = "sent"]
            /\ UNCHANGED <<call, queue, success, failed>>
       ELSE /\ IF CanRetry(a) THEN Retry(a) ELSE RejectAll(a)
            /\ UNCHANGED down
    /\ UNCHANGED <<up, bot, assets, cached, timeouts, mgrCached,
                   currentRequests, env, shard, obs, db>>

\* inspectResult from a shard: resolved when the request is pending and its
\* queue entry is resident, discarded when the entry is gone.
MgrInspectResult(s) ==
    /\ up[s] # <<>> /\ Head(up[s]).type = "inspectResult"
    /\ up' = [up EXCEPT ![s] = Tail(@)]
    /\ LET a == Head(up[s]).a IN
       IF a \notin DOMAIN pending
       THEN UNCHANGED <<call, queue, pending, success, failed>>
       ELSE IF a \notin DOMAIN queue
       THEN /\ pending' = remove(pending, a)
            /\ UNCHANGED <<call, queue, success, failed>>
       ELSE ResolveAll(a)
    /\ UNCHANGED <<down, bot, assets, cached, timeouts, mgrCached,
                   currentRequests, env, shard, obs, db>>

\* inspectError from a shard: retried when the policy allows it, surfaced
\* to every attached submission otherwise.
MgrInspectError(s) ==
    /\ up[s] # <<>> /\ Head(up[s]).type = "inspectError"
    /\ up' = [up EXCEPT ![s] = Tail(@)]
    /\ LET a == Head(up[s]).a IN
       IF a \notin DOMAIN pending \/ pending[a].st # "sent"
       THEN UNCHANGED <<call, queue, pending, success, failed>>
       ELSE IF CanRetry(a) THEN Retry(a) ELSE RejectAll(a)
    /\ UNCHANGED <<down, bot, assets, cached, timeouts, mgrCached,
                   currentRequests, env, shard, obs, db>>

\* ------------------------------------------------------------------------
\* BotWorker (src/unnamed/part_001) and Bot (spec 4.1)

\* Variant: the isReady() filter is missing.
getAvailableBot_any(s) == BotsOf(s)

\* lines 1056-1057: the bots of the shard for which isReady() holds
getAvailableBot(s) == {b \in BotsOf(s) : bot[b].st = "ready"}

\* Bot.inspectItem: Ready -> Busy(assetId), the inspect timeout starts
botInspectItem(r, a) ==
    [st |-> "busy", a |-> a, n |-> r.n + 1]

\* Variant: with no bot the request is dropped without an answer.
handleInspectRequest_silent(s) ==
    /\ Idle
    /\ down[s] # <<>>
    /\ down' = [down EXCEPT ![s] = Tail(@)]
    /\ LET a == Head(down[s]) IN
       IF getAvailableBot(s) = {}
       THEN /\ up' = up
            /\ bot' = bot
       ELSE /\ \E b \in getAvailableBot(s) :
                 bot' = [bot EXCEPT ![b] = botInspectItem(@, a)]
            /\ up' = up
    /\ UNCHANGED <<call, queue, pending, assets, counters, currentRequests, env, shard, obs, db>>

\* lines 978-1014: no bot: inspectError at once; else one of the ready
\* bots, picked at random, starts the inspect.
handleInspectRequest(s) ==
    /\ Idle
    /\ down[s] # <<>>
    /\ down' = [down EXCEPT ![s] = Tail(@)]
    /\ LET a == Head(down[s]) IN
       IF getAvailableBot(s) = {}
       THEN /\ up' = [up EXCEPT ![s] = Append(@,
                        [type |-> "inspectError", a |-> a, error |-> "NoBotsReady"])]
            /\ bot' = bot
       ELSE /\ \E b \in getAvailableBot(s) :
                 bot' = [bot EXCEPT ![b] = botInspectItem(@, a)]
            /\ up' = up
    /\ UNCHANGED <<call, queue, pending, assets, counters, currentRequests, env, shard, obs, db>>

\* Bot emits inspectResult (Busy -> Cooldown); lines 1016-1043: the shard
\* sends inspectResult with the assetId of the response.
BotInspectResult(b) ==
    /\ Idle
    /\ bot[b].st = "busy"
    /\ bot' = [bot EXCEPT ![b] = [st |-> "cooldown", a |-> 0, n |-> 0]]
    /\ up' = [up EXCEPT ![ShardOf(b)] = Append(@,
                [type |-> "inspectResult", a |-> bot[b].a, error |-> "none"])]
    /\ UNCHANGED <<call, queue, pending, down, assets, counters, currentRequests, env, shard, obs, db>>

\* Inspect timeout (Busy -> Cooldown, InspectTimeout); lines 1006-1013: the
\* rejection of bot.inspectItem is sent as inspectError.
BotInspectTimeout(b) ==
    /\ Idle
    /\ bot[b].st = "busy"
    /\ bot' = [bot EXCEPT ![b] = [st |-> "cooldown", a |-> 0, n |-> 0]]
    /\ up' = [up EXCEPT ![ShardOf(b)] = Append(@,
                [type |-> "inspectError", a |-> bot[b].a, error |-> "InspectTimeout"])]
    /\ UNCHANGED <<call, queue, pending, down, assets, counters, currentRequests, env, shard, obs, db>>

\* Cooldown(until) -> Ready when the cooldown timer fires
BotCooldownEnd(b) ==
    /\ Idle
    /\ bot[b].st = "cooldown"
    /\ bot' = [bot EXCEPT ![b] = [st |-> "ready", a |-> 0, n |-> 0]]
    /\ UNCHANGED <<call, queue, pending, down, up, assets, counters, currentRequests, env, shard, obs, db>>

\* ------------------------------------------------------------------------
\* One unit of time passes; no timer is due.
Tick ==
    /\ \A c \in Calls : ~(call[c].armed /\ call[c].t = 0)
    /\ Idle
    /\ \A s \in Shards : down[s] = <<>>
    /\ call' = [c \in Calls |->
                  IF call[c].t >= 0 THEN [call[c] EXCEPT !.t = @ - 1] ELSE call[c]]
    /\ queue' = [a \in DOMAIN queue |->
                  [queue[a] EXCEPT !.age = IF @ > QUEUE_TIMEOUT THEN @ ELSE @ + 1]]
    /\ UNCHANGED <<pending, down, up, bot, assets, counters, currentRequests, env, shard, obs, db>>

Next ==
    \/ \E c \in Calls, a \in Assets, rf \in BOOLEAN, rp \in BOOLEAN :
           inspectItem(c, a, rf, rp)
    \/ \E c \in Calls, err \in BOOLEAN : checkCache(c, err)
    \/ \E c \in Calls : Timer(c)
    \/ \E c \in Calls, ok \in BOOLEAN : handleInspectResult(c, ok)
    \/ \E a \in Assets : MgrDispatch(a)
    \/ \E s \in Shards : MgrInspectResult(s)
    \/ \E s \in Shards : MgrInspectError(s)
    \/ \E s \in Shards : handleInspectRequest(s)
    \/ \E b \in Bots : BotInspectResult(b)
    \/ \E b \in Bots : BotInspectTimeout(b)
    \/ \E b \in Bots : BotCooldownEnd(b)
    \/ Tick

Spec == Init /\ [][Next]_vars

\* ------------------------------------------------------------------------
\* The life cycle of one Worker Shard (BotWorker, src/unnamed/part_001):
\* initializeBots, performHealthCheck, shutdown and the inspectItem message.
\* Every action is one callback of the worker's event loop, run to its next
\* await or to its end.  Bot (spec 4.1) is not in the tree: initialize()
\* settles with Ready or with an error, destroy() returns a promise that
\* settles later, fulfilled or rejected, and a bot on which destroy() was
\* called is no longer selectable.

\* the outcomes of Bot.initialize()
Outcomes == {"ok", "ACCOUNT_DISABLED", "LOGIN_THROTTLED", "error"}

\* the user whose login the run r awaits
UserOf(r) == r.arr[r.i]

\* line 704: this.accounts.filter(acc => !acc.startsWith(username))
dropAccount(accs, u) ==
    SelectSeq(accs, LAMBDA v : ~startsWith(Account(v), UserName(u)))

\* lines 579-595: the for-of loop goes on over the array it started with;
\* an account with an unexpired throttle is skipped (lines 586-590), the
\* next one is logged in with retryCount 0
initNext(arr, i, thr) ==
    LET J == {j \in (i + 1)..Len(arr) : arr[j] \notin thr} IN
    IF J = {} THEN NoRun
    ELSE [pc |-> "login", arr |-> arr, retryCount |-> 0,
          i |-> CHOOSE j \in J : \A k \in J : j <= k]

\* lines 824-841: the loop passes over an account whose bot is neither in
\* error nor disconnected, whose throttle has not expired, or whose entry of
\* failedAccounts is less than 30 minutes old
hcSkips(u, bs, thr, fa) ==
    \/ bs[u] \notin {"none", "error", "disconnected"}
    \/ u \in thr
    \/ fa[u] = "recent"

\* lines 818-850: the for-of loop over the array it started with logs in the
\* next account it does not pass over and that has no bot (line 847,
\* initializeSingleBot, line 849)
hcNext(arr, i, bs, thr, fa) ==
    LET J == {j \in (i + 1)..Len(arr) :
                 ~hcSkips(arr[j], bs, thr, fa) /\ bs[arr[j]] = "none"} IN
    IF J = {} THEN NoRun
    ELSE [pc |-> "login", arr |-> arr, retryCount |-> 0,
          i |-> CHOOSE j \in J : \A k \in J : j <= k]

\* lines 836-844: on its way to the login of run r, or to its end, the loop
\* deletes the entry of failedAccounts of every account it does not pass
\* over
hcForgets(arr, i, r, bs, thr, fa) ==
    LET last == IF r.pc = "login" THEN r.i ELSE Len(arr)
        reached == {arr[j] : j \in (i + 1)..last}
    IN [u \in Users |->
           IF u \in reached /\ ~hcSkips(u, bs, thr, fa) THEN "none" ELSE fa[u]]

\* Bot.canReconnect() (spec 4.1): reconnecting ends when the attempts are
\* exhausted, which leaves the bot permanently failed
canReconnect(u) == ~reconnect[u].permanentlyFailed

\* Variant: a bot whose reconnect is already scheduled is scheduled again.
healthReconnects_again ==
    {u \in Users : /\ bots[u] \in {"error", "disconnected"}
                   /\ ~reconnect[u].permanentlyFailed
                   /\ u \notin throttledAccounts
                   /\ canReconnect(u)}

\* lines 756-806: the bots of the table on which the health check calls
\* scheduleReconnect()
healthReconnects ==
    {u \in Users : /\ bots[u] \in {"error", "disconnected"}
                   /\ reconnect[u].scheduled = 0
                   /\ ~reconnect[u].permanentlyFailed
                   /\ u \notin throttledAccounts
                   /\ canReconnect(u)}

\* the login a run has gone on to, if any
loginOf(by, r) ==
    IF r.pc = "login" THEN [NoLogin EXCEPT !.by = by, !.u = UserOf(r)]
    ELSE NoLogin

\* initializeBots after the await of bot.initialize(), lines 684-716, and on
\* to the next await of the loop
InitLoginDone(outcome) ==
    /\ ~exited
    /\ initRun.pc = "login"
    /\ LET u == UserOf(initRun)
           thr == CASE outcome = "ok" -> throttledAccounts \ {u}
                    [] outcome = "LOGIN_THROTTLED" -> throttledAccounts \cup {u}
                    [] OTHER -> throttledAccounts
           r == IF outcome = "error" /\ initRun.retryCount + 1 < MAX_RETRIES
                THEN [initRun EXCEPT !.retryCount = @ + 1]
                ELSE initNext(initRun.arr, initRun.i, thr)
       IN /\ bots' = IF outcome = "ok" THEN [bots EXCEPT ![u] = "ready"] ELSE bots
          /\ throttledAccounts' = thr
          /\ accounts' = IF outcome = "ACCOUNT_DISABLED"
                         THEN dropAccount(accounts, u) ELSE accounts
          /\ disabled' = IF outcome = "ACCOUNT_DISABLED"
                         THEN disabled \cup {u} ELSE disabled
          /\ initRun' = r
          /\ started' = loginOf("init", r)
          /\ reconnect' = IF outcome = "ok"
                          THEN [reconnect EXCEPT ![u] = NewReconnect]
                          ELSE reconnect
          /\ lastFailure' = IF outcome = "error"
                            THEN [lastFailure EXCEPT ![u] = "recent"]
                            ELSE lastFailure
    /\ UNCHANGED <<hc, sd, completed, exited, failedAccounts, coord, obs, db>>

\* performHealthCheck, lines 751-810, up to the first await of
\* retryFailedAccountInitialization (lines 815-852); started by the interval
\* and the 30 s timer of setupHealthCheck (lines 737-746) and by a
\* healthCheck message (line 514)
performHealthCheck(k) ==
    /\ ~exited
    /\ hc[k].pc = "idle"
    /\ \A j \in 1..(k - 1) : hc[j].pc # "idle"
    /\ LET S == healthReconnects
           r == hcNext(accounts, 0, bots, throttledAccounts, failedAccounts)
       IN /\ reconnect' = [u \in Users |->
                             IF u \in S
                             THEN [reconnect[u] EXCEPT !.scheduled = @ + 1]
                             ELSE reconnect[u]]
          /\ failedAccounts' = hcForgets(accounts, 0, r, bots,
                                         throttledAccounts, failedAccounts)
          /\ hc' = [hc EXCEPT ![k] = r]
          /\ started' = [loginOf("hc", r) EXCEPT !.walk = TRUE,
                                                 !.reconnects = S]
    /\ UNCHANGED <<accounts, bots, throttledAccounts, disabled, initRun, sd,
                   completed, exited, lastFailure, coord, obs, db>>

\* initializeSingleBot after the await of bot.initialize(), lines 876-900,
\* and retryFailedAccountInitialization on to its next await
HCLoginDone(k, outcome) ==
    /\ ~exited
    /\ hc[k].pc = "login"
    /\ LET u == UserOf(hc[k])
           thr == CASE outcome = "ok" -> throttledAccounts \ {u}
                    [] outcome = "LOGIN_THROTTLED" -> throttledAccounts \cup {u}
                    [] OTHER -> throttledAccounts
           bs == IF outcome = "ok" THEN [bots EXCEPT ![u] = "ready"] ELSE bots
           fa == IF outcome = "ok" THEN [failedAccounts EXCEPT ![u] = "none"]
                 ELSE failedAccounts
           r == hcNext(hc[k].arr, hc[k].i, bs, thr, fa)
       IN /\ bots' = bs
          /\ throttledAccounts' = thr
          /\ failedAccounts' = hcForgets(hc[k].arr, hc[k].i, r, bs, thr, fa)
          /\ reconnect' = IF outcome = "ok"
                          THEN [reconnect EXCEPT ![u] = NewReconnect]
                          ELSE reconnect
          /\ lastFailure' = IF outcome = "error"
                            THEN [lastFailure EXCEPT ![u] = "recent"]
                            ELSE lastFailure
          /\ hc' = [hc EXCEPT ![k] = r]
          /\ started' = loginOf("hc", r)
    /\ UNCHANGED <<accounts, disabled, initRun, sd, completed, exited, coord,
                   obs, db>>

\* Date.now() reaches the expiry of the throttle of user u
ThrottleExpires(u) ==
    /\ ~exited
    /\ u \in throttledAccounts
    /\ throttledAccounts' = throttledAccounts \ {u}
    /\ started' = NoLogin
    /\ UNCHANGED <<accounts, bots, disabled, initRun, hc, sd, completed, exited,
                   coord, obs, db, recovery>>

\* handleInspectRequest, lines 978-1014, for the bots of this shard: the
\* first Ready bot of the table takes the inspect; without one inspectError
\* is sent and nothing changes
onInspectItem ==
    /\ ~exited
    /\ LET R == {u \in Users : bots[u] = "ready"} IN
       bots' = IF R = {} THEN bots
               ELSE [bots EXCEPT ![CHOOSE u \in R : \A v \in R : u <= v] = "busy"]
    /\ started' = NoLogin
    /\ UNCHANGED <<accounts, throttledAccounts, disabled, initRun, hc, sd,
                   completed, exited, coord, obs, db, recovery>>

\* the bot of user u delivers its result (handleInspectResult, lines
\* 1016-1043) or fails its inspect (lines 1003-1012)
onInspectDone(u) ==
    /\ ~exited
    /\ bots[u] = "busy"
    /\ bots' = [bots EXCEPT ![u] = "ready"]
    /\ started' = NoLogin
    /\ UNCHANGED <<accounts, throttledAccounts, disabled, initRun, hc, sd,
                   completed, exited, coord, obs, db, recovery>>

\* Variant: shutdown reports completion without waiting for the destroy()
\* calls.
shutdown_noJoin(k) ==
    /\ ~exited
    /\ sd[k].pc = "idle"
    /\ \A j \in 1..(k - 1) : sd[j].pc # "idle"
    /\ LET T == {u \in Users : bots[u] # "none"} IN
       /\ bots' = [u \in Users |-> IF u \in T THEN "destroyed" ELSE bots[u]]
       /\ sd' = [sd EXCEPT ![k] = [pc |-> "done", left |-> T, failed |-> FALSE]]
       /\ completed' = completed + 1
       /\ exited' = TRUE
    /\ started' = NoLogin
    /\ UNCHANGED <<accounts, throttledAccounts, disabled, initRun, hc, coord, obs, db, recovery>>

\* shutdown, lines 1125-1146, up to the await of Promise.allSettled:
\* destroy() is called on every bot of the table; with an empty table the
\* join settles at once and lines 1132-1145 run
shutdown(k) ==
    /\ ~exited
    /\ sd[k].pc = "idle"
    /\ \A j \in 1..(k - 1) : sd[j].pc # "idle"
    /\ LET T == {u \in Users : bots[u] # "none"} IN
       /\ bots' = [u \in Users |-> IF u \in T THEN "destroyed" ELSE bots[u]]
       /\ sd' = [sd EXCEPT ![k] =
                   [pc |-> IF T = {} THEN "done" ELSE "destroying",
                    left |-> T, failed |-> FALSE]]
       /\ completed' = IF T = {} THEN completed + 1 ELSE completed
       /\ exited' = (T = {})
    /\ started' = NoLogin
    /\ UNCHANGED <<accounts, throttledAccounts, disabled, initRun, hc, coord, obs, db, recovery>>

\* the promise of the destroy() that run k called on the bot of u settles;
\* when it is the last one the join settles and lines 1132-1145 run: the
\* completed message is sent and the worker exits
DestroySettles(k, u, ok) ==
    /\ ~exited
    /\ sd[k].pc = "destroying"
    /\ u \in sd[k].left
    /\ LET L == sd[k].left \ {u} IN
       /\ sd' = [sd EXCEPT ![k] =
                   [pc |-> IF L = {} THEN "done" ELSE "destroying",
                    left |-> L, failed |-> sd[k].failed \/ ~ok]]
       /\ completed' = IF L = {} THEN completed + 1 ELSE completed
       /\ exited' = (L = {})
    /\ started' = NoLogin
    /\ UNCHANGED <<accounts, bots, throttledAccounts, disabled, initRun, hc,
                   coord, obs, db, recovery>>

NextShard ==
    \/ \E o \in Outcomes : InitLoginDone(o)
    \/ \E k \in 1..MaxHealthChecks : performHealthCheck(k)
    \/ \E k \in 1..MaxHealthChecks, o \in Outcomes : HCLoginDone(k, o)
    \/ \E u \in Users : ThrottleExpires(u)
    \/ onInspectItem
    \/ \E u \in Users : onInspectDone(u)
    \/ \E k \in 1..MaxShutdowns : shutdown(k)
    \/ \E k \in 1..MaxShutdowns, u \in Users, ok \in BOOLEAN :
           DestroySettles(k, u, ok)

\* the bot of user u loses its connection or reports an error (handlers of
\* lines 909-918 and 966-974); by spec 4.1 it schedules its own reconnect on
\* an unexpected disconnect or a recoverable error, and not otherwise
BotDrops(u, status, timer) ==
    /\ ~exited
    /\ bots[u] \in {"ready", "busy"}
    /\ bots' = [bots EXCEPT ![u] = status]
    /\ reconnect' = [reconnect EXCEPT ![u].scheduled = IF timer THEN 1 ELSE 0]
    /\ started' = NoLogin
    /\ UNCHANGED <<accounts, throttledAccounts, disabled, initRun, hc, sd,
                   completed, exited, failedAccounts, lastFailure, coord, obs,
                   db>>

\* a reconnect timer of the bot of user u fires and the attempt ends: with
\* reconnected (lines 940-950), with a failure, or with
\* maxReconnectAttemptsReached (lines 952-963), which by spec 4.1 leaves the
\* bot permanently failed
ReconnectFires(u, outcome) ==
    /\ ~exited
    /\ bots[u] \in {"error", "disconnected"}
    /\ reconnect[u].scheduled > 0
    /\ reconnect' = [reconnect EXCEPT
                        ![u].scheduled = @ - 1,
                        ![u].permanentlyFailed =
                            @ \/ outcome = "maxReconnectAttemptsReached"]
    /\ bots' = IF outcome = "reconnected" THEN [bots EXCEPT ![u] = "ready"]
               ELSE bots
    /\ failedAccounts' =
           CASE outcome = "reconnected" -> [failedAccounts EXCEPT ![u] = "none"]
             [] outcome = "maxReconnectAttemptsReached" ->
                    [failedAccounts EXCEPT ![u] = "recent"]
             [] OTHER -> failedAccounts
    /\ started' = NoLogin
    /\ UNCHANGED <<accounts, throttledAccounts, disabled, initRun, hc, sd,
                   completed, exited, lastFailure, coord, obs, db>>

\* Date.now() reaches 30 minutes after the timestamp of the entry of user u
\* in failedAccounts (line 838)
FailedEntryAges(u) ==
    /\ ~exited
    /\ failedAccounts[u] = "recent"
    /\ failedAccounts' = [failedAccounts EXCEPT ![u] = "old"]
    /\ started' = NoLogin
    /\ UNCHANGED <<accounts, bots, throttledAccounts, disabled, initRun, hc, sd,
                   completed, exited, reconnect, lastFailure, coord, obs, db>>

\* 30 minutes have passed since the last failed initialize() of user u
LastFailureAges(u) ==
    /\ ~exited
    /\ lastFailure[u] = "recent"
    /\ lastFailure' = [lastFailure EXCEPT ![u] = "old"]
    /\ started' = NoLogin
    /\ UNCHANGED <<accounts, bots, throttledAccounts, disabled, initRun, hc, sd,
                   completed, exited, reconnect, failedAccounts, coord, obs, db>>

\* the recovery of the bots of a shard: initialisation, health checks,
\* inspects, connection losses and reconnects
NextHealth ==
    \/ \E o \in Outcomes : InitLoginDone(o)
    \/ \E k \in 1..MaxHealthChecks : performHealthCheck(k)
    \/ \E k \in 1..MaxHealthChecks, o \in Outcomes : HCLoginDone(k, o)
    \/ \E u \in Users : ThrottleExpires(u)
    \/ onInspectItem
    \/ \E u \in Users : onInspectDone(u)
    \/ \E u \in Users, status \in {"error", "disconnected"}, timer \in BOOLEAN :
           BotDrops(u, status, timer)
    \/ \E u \in Users,
          o \in {"reconnected", "failed", "maxReconnectAttemptsReached"} :
           ReconnectFires(u, o)
    \/ \E u \in Users : FailedEntryAges(u)
    \/ \E u \in Users : LastFailureAges(u)

\* the shard alone: the coordinator is at rest
InitAlone ==
    /\ MAX_QUEUE_SIZE = MaxQueueSize
    /\ ALLOW_REFRESH = FALSE
    /\ InitCoord
    /\ InitShard
    /\ InitDb

SpecShard == InitAlone /\ [][NextShard]_vars

SpecHealth == InitAlone /\ [][NextHealth]_vars

\* ------------------------------------------------------------------------
\* Result handling (InspectService.handleInspectResult and its helpers,
\* inspect.service.ts lines 286-515).
\*
\* JavaScript values: a number n is the integer n >= 0 (paint wear and
\* sticker wear in hundredths), null and undefined are Null and Undef, and
\* the string of the digits of n is Str(n), which is equal to no number.
\* An array is Arr(s) for the sequence s of its elements and NoArray stands
\* for a null or undefined where an array is expected; a document is a
\* record and NoDoc is the null a findOne answers when nothing matches.

Undef == 0 - 2
Null == 0 - 1
StrBase == 1000000
Str(n) == StrBase + n
IsStr(v) == v >= StrBase
NoDoc == <<>>
NoArray == [isArray |-> FALSE, elems |-> <<>>]
Arr(s) == [isArray |-> TRUE, elems |-> s]
Found(doc) == DOMAIN doc # {}

\* doc.f: a field the document does not have reads as undefined
Get(doc, f) == IF f \in DOMAIN doc THEN doc[f] ELSE Undef

\* doc.f for a field that holds an array
GetArray(doc, f) == IF f \in DOMAIN doc THEN doc[f] ELSE NoArray

\* ToBoolean for numbers, strings of digits, null and undefined
Truthy(v) == v # Undef /\ v # Null /\ v # 0

\* Number.prototype.toString and the characters of a string of digits:
\* the decimal digits, most significant first
RECURSIVE Digits(_)
Digits(n) == IF n < 10 THEN <<n>> ELSE Append(Digits(n \div 10), n % 10)

\* v.toString() for a number or a string
toString(v) == IF IsStr(v) THEN Digits(v - StrBase) ELSE Digits(v)

\* parseInt(str) and the cast of a string to a Number field
toNumber(v) == IF IsStr(v) THEN v - StrBase ELSE v

\* the characters '7656'
SteamPrefix == <<7, 6, 5, 6>>

\* lines 406-437
RECURSIVE stickerLoop(_, _, _)
stickerLoop(cur, prev, i) ==
    IF i > Len(cur) THEN "null"
    ELSE LET c == cur[i]
             M == {j \in 1..Len(prev) :
                      /\ prev[j].offset_x = c.offset_x
                      /\ prev[j].offset_y = c.offset_y
                      /\ prev[j].offset_z = c.offset_z
                      /\ prev[j].rotation = c.rotation
                      /\ prev[j].slot = c.slot
                      /\ prev[j].sticker_id = c.sticker_id}
         IN IF M = {}
            THEN IF Len(cur) = Len(prev) THEN "STICKER_CHANGE"
                 ELSE "STICKER_REMOVE"
            ELSE LET p == prev[CHOOSE j \in M : \A k \in M : j <= k] IN
                 IF c.wear # p.wear
                 THEN IF c.wear > p.wear THEN "STICKER_SCRAPE"
                      ELSE "STICKER_CHANGE"
                 ELSE stickerLoop(cur, prev, i + 1)

\* lines 406-443; an array, also an empty one, is truthy
detectStickerChanges(currentStickers, previousStickers) ==
    IF ~currentStickers.isArray \/ ~previousStickers.isArray THEN "null"
    ELSE LET cur == currentStickers.elems
             prev == previousStickers.elems
         IN IF Len(cur) > Len(prev) THEN "STICKER_APPLY"
            ELSE IF Len(cur) < Len(prev) THEN "STICKER_REMOVE"
            ELSE stickerLoop(cur, prev, 1)

\* JSON.stringify of an array of plain objects, each the sequence of its
\* properties <<key, value>> in insertion order: the text lists the
\* properties of every object in that order and leaves out the ones whose
\* value is undefined
stringify(elems) ==
    [i \in 1..Len(elems) |-> SelectSeq(elems[i], LAMBDA p : p[2] # Undef)]

\* lines 445-458
detectKeychainChanges(currentKeychains, previousKeychains) ==
    IF ~currentKeychains.isArray \/ ~previousKeychains.isArray THEN "null"
    ELSE LET cur == currentKeychains.elems
             prev == previousKeychains.elems
         IN IF Len(cur) = 0 /\ Len(prev) > 0 THEN "KEYCHAIN_REMOVED"
            ELSE IF Len(cur) > 0 /\ Len(prev) = 0 THEN "KEYCHAIN_ADDED"
            ELSE IF stringify(cur) # stringify(prev) THEN "KEYCHAIN_CHANGED"
            ELSE "null"

\* lines 373-380
originType(origin) ==
    CASE origin = 8 -> "TRADED_UP"
      [] origin = 4 -> "DROPPED"
      [] origin = 1 -> "PURCHASED_INGAME"
      [] origin = 2 -> "UNBOXED"
      [] origin = 3 -> "CRAFTED"
      [] OTHER -> "UNKNOWN"

\* Variant: every source is taken for an unboxing.
getHistoryType_unboxed(response, history, inspectData) == "UNBOXED"

\* lines 372-404; history is the asset document findHistory answered
getHistoryType(response, history, inspectData) ==
    IF ~Found(history) THEN originType(response.origin)
    ELSE
    LET owner == Get(history, "owner")
        ms == inspectData.ms
        ownerIsUser == Truthy(owner) /\ startsWith(toString(owner), SteamPrefix)
        msIsUser == Truthy(ms) /\ startsWith(toString(ms), SteamPrefix)
        stickerChanges ==
            detectStickerChanges(response.stickers, GetArray(history, "stickers"))
        keychainChanges ==
            detectKeychainChanges(response.keychains, GetArray(history, "keychains"))
    IN IF owner # ms /\ owner \notin {Undef, Null} /\ ownerIsUser THEN "TRADE"
       ELSE IF owner # ms /\ Truthy(owner) /\ ~ownerIsUser THEN "MARKET_BUY"
       ELSE IF Truthy(owner) /\ ownerIsUser /\ ~msIsUser THEN "MARKET_LISTING"
       ELSE IF owner = ms /\ stickerChanges # "null" THEN stickerChanges
       ELSE IF owner = ms /\ keychainChanges # "null" THEN keychainChanges
       ELSE "UNKNOWN"

\* v || 0
orZero(v) == IF Truthy(v) THEN v ELSE 0

\* values.join('-'), the character '-' written 10
joinDash(values) ==
    toString(values[1]) \o <<10>> \o toString(values[2]) \o <<10>>
        \o toString(values[3]) \o <<10>> \o toString(values[4])

\* the digests: the 8 hexadecimal digits of line 514, cut to 4 to stay within
\* the integers of the model checker
DigestRange == 65536

\* createHash('sha1').update(str).digest('hex').substring(0, 8): a function
\* of the characters of str alone, here a polynomial digest
RECURSIVE sha1Prefix8(_)
sha1Prefix8(str) ==
    IF str = <<>> THEN 7
    ELSE (sha1Prefix8(SubSeq(str, 1, Len(str) - 1)) * 31 + str[Len(str)] + 1)
             % DigestRange

\* Variant: the origin of the item is hashed too.
generateUniqueId_origin(it) ==
    sha1Prefix8(joinDash(<<orZero(it.paintSeed), orZero(it.paintIndex),
                           orZero(it.paintWear), orZero(it.defIndex)>>)
                \o <<10>> \o toString(orZero(it.origin)))

\* lines 496-515
generateUniqueId(it) ==
    sha1Prefix8(joinDash(<<orZero(it.paintSeed), orZero(it.paintIndex),
                           orZero(it.paintWear), orZero(it.defIndex)>>))

\* lines 288-298: the item handleInspectResult passes to generateUniqueId
uniqueIdOf(response) ==
    generateUniqueId(
        [paintSeed |-> response.paintseed,
         paintIndex |-> IF response.paintindex = Null THEN 0 ELSE response.paintindex,
         paintWear |-> IF response.paintwear = Null THEN 0 ELSE response.paintwear,
         defIndex |-> response.defindex,
         origin |-> response.origin])

\* lines 461-484: the fields saveAsset sets; the document has no owner field
\* (asset.schema.ts lines 11-22: the owner is stored as ms, a Number)
assetData(response, inspectData, uniqueId) ==
    [uniqueId |-> uniqueId,
     ms |-> toNumber(inspectData.ms),
     assetId |-> toNumber(response.itemid),
     paintSeed |-> IF response.paintseed = Null THEN 0 ELSE response.paintseed,
     paintIndex |-> IF response.paintindex = Null THEN 0 ELSE response.paintindex,
     paintWear |-> IF response.paintwear = Null THEN 0 ELSE response.paintwear,
     defIndex |-> response.defindex,
     origin |-> response.origin,
     stickers |-> response.stickers,
     keychains |-> response.keychains]

\* lines 355-368: the document saveHistory creates
historyData(response, history, inspectData, uniqueId) ==
    [uniqueId |-> uniqueId,
     assetId |-> toNumber(response.itemid),
     prevAssetId |-> Get(history, "assetId"),
     owner |-> toNumber(inspectData.ms),
     prevOwner |-> Get(history, "ms"),
     stickers |-> response.stickers,
     keychains |-> response.keychains,
     prevStickers |-> GetArray(history, "stickers"),
     prevKeychains |-> GetArray(history, "keychains"),
     type |-> getHistoryType(response, history, inspectData)]

\* ---- the classifier on its own

\* a sticker at a slot with a wear, unmoved
Sticker(slot, id, wear) ==
    [slot |-> slot, sticker_id |-> id, wear |-> wear, offset_x |-> 0,
     offset_y |-> 0, offset_z |-> 0, rotation |-> 0]

StickerLists ==
    {Arr(<<>>), Arr(<<Sticker(0, 202, 5)>>), Arr(<<Sticker(0, 202, 30)>>),
     Arr(<<Sticker(0, 303, 5)>>),
     Arr(<<Sticker(0, 202, 5), Sticker(1, 303, 5)>>)}

\* a keychain object with its properties in the order they were set
Keychain(slot, id) == <<<<"slot", slot>>, <<"sticker_id", id>>>>

KeychainLists ==
    {Arr(<<>>), Arr(<<Keychain(0, 1)>>), Arr(<<Keychain(0, 2)>>)}

\* two players and a market proxy, as the S or M value of the link
Owners == {Str(76561), Str(76562), Str(1234)}

Origins == {Undef, 1, 2, 3, 4, 5, 8}

\* the result of an inspect of item a with the paint of one skin
ClsResponse(a, o, st, kc) ==
    [itemid |-> Str(a), paintseed |-> 661, paintindex |-> 44, paintwear |-> 7,
     defindex |-> 7, origin |-> o, stickers |-> st, keychains |-> kc]

\* the asset documents a first handling of the item stored, and none
PriorDocs(o) ==
    {NoDoc} \cup
    {assetData(ClsResponse(1, o, st, kc), [ms |-> m],
               uniqueIdOf(ClsResponse(1, o, st, kc))) :
        st \in StickerLists, kc \in KeychainLists, m \in Owners}

\* saveHistory, line 367, for a result whose prior record findHistory found
classify ==
    /\ obs = NoObs
    /\ \E o \in Origins, st \in StickerLists, kc \in KeychainLists,
          m \in Owners :
          \E h \in PriorDocs(o) :
             LET r == ClsResponse(2, o, st, kc) IN
             obs' = [response |-> r, history |-> h, inspectData |-> [ms |-> m],
                     type |-> getHistoryType(r, h, [ms |-> m])]
    /\ UNCHANGED <<coord, shard, db>>

InitClassify ==
    /\ MAX_QUEUE_SIZE = MaxQueueSize
    /\ ALLOW_REFRESH = FALSE
    /\ InitCoord
    /\ InitShard
    /\ InitDb

NextClassify == classify

SpecClassify == InitClassify /\ [][NextClassify]_vars

\* ---- the unique id on its own

PaintSeeds == {Undef, Null, 0, 1, 2}
PaintIndexes == {Undef, Null, 0, 1}
PaintWears == {Undef, Null, 0, 1}
DefIndexes == {Undef, 0, 1}

\* the result of an inspect of item a
UidResponse(a, o, seed, index, wear, def) ==
    [itemid |-> Str(a), paintseed |-> seed, paintindex |-> index,
     paintwear |-> wear, defindex |-> def, origin |-> o,
     stickers |-> Arr(<<>>), keychains |-> Arr(<<>>)]

\* lines 288-308 for two results: the id of each, and the ids written with
\* the asset record and the history record of the first
computeUniqueId ==
    /\ obs = NoObs
    /\ \E seed \in PaintSeeds, index \in PaintIndexes, wear \in PaintWears,
          def \in DefIndexes :
       \E a \in 1..NumAssets, o \in {1, 2}, seed2 \in PaintSeeds,
          index2 \in PaintIndexes, wear2 \in PaintWears, def2 \in DefIndexes :
          LET x == UidResponse(1, 1, seed, index, wear, def)
              y == UidResponse(a, o, seed2, index2, wear2, def2)
              uniqueId == uniqueIdOf(x)
              inspectData == [ms |-> Str(76561)]
          IN obs' = [x |-> x, y |-> y, idx |-> uniqueId, idy |-> uniqueIdOf(y),
                     history |-> historyData(x, NoDoc, inspectData, uniqueId),
                     asset |-> assetData(x, inspectData, uniqueId)]
    /\ UNCHANGED <<coord, shard, db>>

InitUid ==
    /\ MAX_QUEUE_SIZE = MaxQueueSize
    /\ ALLOW_REFRESH = FALSE
    /\ InitCoord
    /\ InitShard
    /\ InitDb

NextUid == computeUniqueId

SpecUid == InitUid /\ [][NextUid]_vars

\* ---- the asset store and the history store under concurrent handlers

\* the calls of handleInspectResult that can run at a time
MaxHandlers == 2

Handlers == 1..MaxHandlers

\* a call that has not begun
NotBegun == [pc |-> "idle", a |-> 0, ms |-> Undef, history |-> NoDoc,
         after |-> FALSE, saved |-> FALSE]

\* the paints an item can have: a seed absent, zero or set, an index and a
\* wear absent or set
Paints == {<<seed, index, wear>> : seed \in {Null, 0, 1}, index \in {Null, 1},
                                   wear \in {Null, 1}}

StoreOwners == {Str(76561), Str(1234)}

\* an inspect of one item answers the same result every time
InitStore ==
    /\ MAX_QUEUE_SIZE = MaxQueueSize
    /\ ALLOW_REFRESH = FALSE
    /\ InitCoord
    /\ InitShard
    /\ obs = NoObs
    /\ \E paint \in [1..NumAssets -> Paints] :
          item = [a \in 1..NumAssets |->
                     UidResponse(a, 2, paint[a][1], paint[a][2], paint[a][3], 7)]
    /\ assetRows = <<>>
    /\ historyRows = <<>>
    /\ handler = [h \in Handlers |-> NotBegun]

responseOf(h) == item[handler[h].a]
inspectDataOf(h) == [ms |-> handler[h].ms]

\* line 299-303
historyWanted(response) ==
    /\ Truthy(response.paintseed)
    /\ response.paintwear # Null
    /\ response.paintindex # Null

\* lines 338-348: the most recent asset record of the same paint and origin
findHistoryDoc(response) ==
    LET same(row) == /\ row.paintWear = response.paintwear
                     /\ row.paintIndex = response.paintindex
                     /\ row.defIndex = response.defindex
                     /\ row.paintSeed = response.paintseed
                     /\ row.origin = response.origin
        found == {i \in 1..Len(assetRows) : same(assetRows[i])}
    IN IF found = {} THEN NoDoc
       ELSE assetRows[CHOOSE i \in found : \A j \in found : j <= i]

\* findOneAndUpdate({ uniqueId }, { $set: assetData }, { upsert: true })
upsert(rows, data) ==
    LET hasId(row) == row.uniqueId = data.uniqueId
        found == {i \in 1..Len(rows) : hasId(rows[i])}
    IN IF found = {} THEN Append(rows, data)
       ELSE LET i == CHOOSE k \in found : \A j \in found : k <= j
            IN [rows EXCEPT ![i] = data]

\* lines 286-303: a result arrives and the id is computed
handleStart(h) ==
    /\ handler[h].pc = "idle"
    /\ \E a \in 1..NumAssets, m \in StoreOwners :
          handler' = [handler EXCEPT ![h] =
              [pc |-> IF historyWanted(item[a]) THEN "findHistory"
                      ELSE "saveAsset",
               a |-> a, ms |-> m, history |-> NoDoc,
               after |-> \E g \in Handlers :
                            handler[g].pc = "done" /\ handler[g].a = a,
               saved |-> FALSE]]
    /\ UNCHANGED <<coord, shard, obs, item, assetRows, historyRows>>

\* Variant: the prior record is looked up after the asset was stored.
findHistory_afterSave(h) ==
    /\ handler[h].pc = "findAsset"
    /\ handler' = [handler EXCEPT ![h].pc = "done",
                                  ![h].history = findHistoryDoc(responseOf(h))]
    /\ UNCHANGED <<coord, shard, obs, item, assetRows, historyRows>>

\* line 304
findHistory(h) ==
    /\ handler[h].pc = "findHistory"
    /\ handler' = [handler EXCEPT ![h].pc = "findOne",
                                  ![h].history = findHistoryDoc(responseOf(h))]
    /\ UNCHANGED <<coord, shard, obs, item, assetRows, historyRows>>

\* lines 351-355: the history record of the asset is looked for
saveHistoryFindOne(h) ==
    /\ handler[h].pc = "findOne"
    /\ LET assetId == toNumber(responseOf(h).itemid)
           existing == \E i \in 1..Len(historyRows) :
                          historyRows[i].assetId = assetId
       IN handler' = [handler EXCEPT ![h].pc = IF existing THEN "saveAsset"
                                               ELSE "create"]
    /\ UNCHANGED <<coord, shard, obs, item, assetRows, historyRows>>

\* lines 356-368 with the unique index of asset.schema.ts line 196: the
\* insert of a second record of one (uniqueId, assetId) is refused, create
\* throws and handleInspectResult rethrows (lines 318-321)
saveHistoryCreate(h) ==
    /\ handler[h].pc = "create"
    /\ LET uniqueId == uniqueIdOf(responseOf(h))
           doc == historyData(responseOf(h), handler[h].history,
                              inspectDataOf(h), uniqueId)
           duplicate == \E i \in 1..Len(historyRows) :
                           /\ historyRows[i].uniqueId = doc.uniqueId
                           /\ historyRows[i].assetId = doc.assetId
       IN IF duplicate
          THEN /\ handler' = [handler EXCEPT ![h].pc = "failed"]
               /\ UNCHANGED historyRows
          ELSE /\ historyRows' = Append(historyRows, doc)
               /\ handler' = [handler EXCEPT ![h].pc = "saveAsset"]
    /\ UNCHANGED <<coord, shard, obs, item, assetRows>>

\* Variant: the asset record is inserted, never updated.
saveAsset_insert(h) ==
    /\ handler[h].pc = "saveAsset"
    /\ assetRows' = Append(assetRows,
                           assetData(responseOf(h), inspectDataOf(h),
                                     uniqueIdOf(responseOf(h))))
    /\ handler' = [handler EXCEPT ![h].pc = "findAsset", ![h].saved = TRUE]
    /\ UNCHANGED <<coord, shard, obs, item, historyRows>>

\* lines 460-491
saveAsset(h) ==
    /\ handler[h].pc = "saveAsset"
    /\ assetRows' = upsert(assetRows,
                           assetData(responseOf(h), inspectDataOf(h),
                                     uniqueIdOf(responseOf(h))))
    /\ handler' = [handler EXCEPT ![h].pc = "findAsset", ![h].saved = TRUE]
    /\ UNCHANGED <<coord, shard, obs, item, historyRows>>

\* lines 493 and 310-317: the record is read back by assetId
saveAssetFindOne(h) ==
    /\ handler[h].pc = "findAsset"
    /\ LET assetId == toNumber(responseOf(h).itemid)
           asset == \E i \in 1..Len(assetRows) : assetRows[i].assetId = assetId
       IN handler' = [handler EXCEPT ![h].pc = IF asset THEN "done"
                                               ELSE "failed"]
    /\ UNCHANGED <<coord, shard, obs, item, assetRows, historyRows>>

NextStore ==
    \E h \in Handlers :
        \/ handleStart(h)
        \/ findHistory(h)
        \/ saveHistoryFindOne(h)
        \/ saveHistoryCreate(h)
        \/ saveAsset(h)
        \/ saveAssetFindOne(h)

SpecStore == InitStore /\ [][NextStore]_vars

\* ---- the sticker and keychain comparisons on their own

\* every sticker in either of two slots, with either of two ids and wears
SlotStickers(slot) == {Sticker(slot, id, wear) : id \in {202, 303}, wear \in {5, 30}}

\* the sticker lists of an item with two slots, in either order
DetectStickerLists ==
    {Arr(<<>>)}
    \cup {Arr(<<s>>) : s \in SlotStickers(0) \cup SlotStickers(1)}
    \cup {Arr(<<s, t>>) : s \in SlotStickers(0), t \in SlotStickers(1)}
    \cup {Arr(<<t, s>>) : s \in SlotStickers(0), t \in SlotStickers(1)}

\* the keychain objects of one slot, their properties in either order
KeychainObjects ==
    {Keychain(0, id) : id \in {1, 2}}
    \cup {<<<<"sticker_id", id>>, <<"slot", 0>>>> : id \in {1, 2}}

DetectKeychainLists ==
    {Arr(<<>>)} \cup {Arr(<<k>>) : k \in KeychainObjects}
    \cup {Arr(<<k, l>>) : k \in KeychainObjects, l \in KeychainObjects}

\* line 396: the stickers of a result are compared with those of the prior
\* record
compareStickers ==
    /\ obs = NoObs
    /\ \E cur \in DetectStickerLists, prev \in DetectStickerLists :
          obs' = [of |-> "stickers", current |-> cur, previous |-> prev,
                  change |-> detectStickerChanges(cur, prev)]
    /\ UNCHANGED <<coord, shard, db>>

\* line 399: the keychains of a result are compared with those of the prior
\* record
compareKeychains ==
    /\ obs = NoObs
    /\ \E cur \in DetectKeychainLists, prev \in DetectKeychainLists :
          obs' = [of |-> "keychains", current |-> cur, previous |-> prev,
                  change |-> detectKeychainChanges(cur, prev)]
    /\ UNCHANGED <<coord, shard, db>>

InitDetect ==
    /\ MAX_QUEUE_SIZE = MaxQueueSize
    /\ ALLOW_REFRESH = FALSE
    /\ InitCoord
    /\ InitShard
    /\ InitDb

NextDetect == compareStickers \/ compareKeychains

SpecDetect == InitDetect /\ [][NextDetect]_vars

\* ---- the reports of a shard to its parent (part_001 lines 905-1123)
\*
\* The bots of the shard are registered and logged in. bots[u] is the state
\* of the Bot of user u, one of the BotState variants of spec 3 and 4.1, and
\* obs holds the messages the last step posted to the parent, the asset each
\* bot is inspecting, and how many inspectItem messages were handled and how
\* many terminal messages were sent for each asset.

\* the shard's life cycle apart from the bot table
lifecycle == <<accounts, throttledAccounts, disabled, started, initRun, hc, sd,
               completed, exited, reconnect, failedAccounts, lastFailure>>

\* Array.from(this.bots.values()).filter(test).length, for the test of one
\* of the state-query predicates of Bot (isReady, isBusy, isCooldown,
\* isError, isDisconnected: one for each of five states, spec 4.1)
count(bs, st) == Cardinality({u \in Users : bs[u] = st})

\* lines 1086-1089: the status of a botDetails row
rowStatus(st) ==
    IF st = "ready" THEN "ready"
    ELSE IF st = "busy" THEN "busy"
    ELSE IF st = "cooldown" THEN "cooldown"
    ELSE IF st = "disconnected" THEN "disconnected"
    ELSE "error"

\* sendStats, lines 1068-1123: the stats message for the bot table bs
sendStats(bs) ==
    [type |-> "stats",
     readyBots |-> count(bs, "ready"),
     busyBots |-> count(bs, "busy"),
     cooldownBots |-> count(bs, "cooldown"),
     errorBots |-> count(bs, "error"),
     disconnectedBots |-> count(bs, "disconnected"),
     totalBots |-> Cardinality({u \in Users : bs[u] # "none"}),
     botDetails |-> [u \in {v \in Users : bs[v] # "none"} |-> rowStatus(bs[u])]]

botStatusChange(u, status) ==
    [type |-> "botStatusChange", username |-> u, status |-> status]

\* inspectResult carries the assetId of the response, inspectError the one
\* of the request
terminalMessage(type, a) == [type |-> type, assetId |-> a]

\* lines 978-1014: without a Ready bot inspectError is sent; otherwise
\* 'busy' is reported for the bot picked, a stats snapshot is sent and then
\* bot.inspectItem is called (Ready -> Busy)
inspectItemMessage(a) ==
    /\ obs.handled[a] < MaxCalls
    /\ LET R == {u \in Users : bots[u] = "ready"} IN
       IF R = {}
       THEN /\ bots' = bots
            /\ obs' = [obs EXCEPT !.sent = <<terminalMessage("inspectError", a)>>,
                                  !.handled[a] = @ + 1,
                                  !.terminal[a] = @ + 1]
       ELSE \E u \in R :
            /\ bots' = [bots EXCEPT ![u] = "busy"]
            /\ obs' = [obs EXCEPT !.sent = <<botStatusChange(u, "busy"),
                                            sendStats(bots)>>,
                                  !.job[u] = a,
                                  !.handled[a] = @ + 1]
    /\ UNCHANGED <<coord, db, lifecycle>>

\* the bot of u emits inspectResult (Busy -> Cooldown, spec 4.1);
\* handleInspectResult, lines 1016-1043, reports 'ready', sends
\* inspectResult and a stats snapshot
onInspectResult(u) ==
    /\ bots[u] = "busy"
    /\ bots' = [bots EXCEPT ![u] = "cooldown"]
    /\ obs' = [obs EXCEPT !.sent = <<botStatusChange(u, "ready"),
                                    terminalMessage("inspectResult", obs.job[u]),
                                    sendStats(bots')>>,
                          !.job[u] = 0,
                          !.terminal[obs.job[u]] = @ + 1]
    /\ UNCHANGED <<coord, db, lifecycle>>

\* the inspect of the bot of u times out (Busy -> Cooldown, InspectTimeout):
\* bot.inspectItem rejects and the catch of lines 1006-1013 sends
\* inspectError
onInspectRejected(u) ==
    /\ bots[u] = "busy"
    /\ bots' = [bots EXCEPT ![u] = "cooldown"]
    /\ obs' = [obs EXCEPT !.sent = <<terminalMessage("inspectError", obs.job[u])>>,
                          !.job[u] = 0,
                          !.terminal[obs.job[u]] = @ + 1]
    /\ UNCHANGED <<coord, db, lifecycle>>

\* the cooldown timer of the bot of u fires (Cooldown -> Ready)
onCooldownEnd(u) ==
    /\ bots[u] = "cooldown"
    /\ bots' = [bots EXCEPT ![u] = "ready"]
    /\ obs' = [obs EXCEPT !.sent = <<>>]
    /\ UNCHANGED <<coord, db, lifecycle>>

\* the transport of the bot of u drops (Ready/Busy -> Disconnected); lines
\* 966-974 report 'disconnected' and send a stats snapshot. Nothing is sent
\* for the inspect the bot was busy with.
onDisconnected(u) ==
    /\ bots[u] = "ready" \/ bots[u] = "busy"
    /\ bots' = [bots EXCEPT ![u] = "disconnected"]
    /\ obs' = [obs EXCEPT !.sent = <<botStatusChange(u, "disconnected"),
                                    sendStats(bots')>>,
                          !.job[u] = 0]
    /\ UNCHANGED <<coord, db, lifecycle>>

\* the bot of u reports a recoverable error (Ready/Busy -> Error); lines
\* 909-918 send botError. Nothing is sent for the inspect the bot was busy
\* with.
onError(u) ==
    /\ bots[u] = "ready" \/ bots[u] = "busy"
    /\ bots' = [bots EXCEPT ![u] = "error"]
    /\ obs' = [obs EXCEPT !.sent = <<[type |-> "botError", username |-> u]>>,
                          !.job[u] = 0]
    /\ UNCHANGED <<coord, db, lifecycle>>

\* a reconnect of the bot of u succeeds; lines 940-950 send botReconnected
\* and a stats snapshot
onReconnected(u) ==
    /\ bots[u] = "disconnected" \/ bots[u] = "error"
    /\ bots' = [bots EXCEPT ![u] = "ready"]
    /\ obs' = [obs EXCEPT !.sent = <<[type |-> "botReconnected", username |-> u,
                                     status |-> "ready"],
                                    sendStats(bots')>>]
    /\ UNCHANGED <<coord, db, lifecycle>>

\* the reconnect attempts of the bot of u are exhausted (-> PermanentlyFailed,
\* spec 4.1); lines 952-963 send botPermanentlyFailed
onMaxReconnectAttemptsReached(u) ==
    /\ bots[u] = "disconnected" \/ bots[u] = "error"
    /\ bots' = [bots EXCEPT ![u] = "permanentlyFailed"]
    /\ obs' = [obs EXCEPT !.sent = <<[type |-> "botPermanentlyFailed",
                                     username |-> u]>>]
    /\ UNCHANGED <<coord, db, lifecycle>>

\* lines 726-732 and 500-503: the stats interval fires or getStats arrives
onGetStats ==
    /\ bots' = bots
    /\ obs' = [obs EXCEPT !.sent = <<sendStats(bots)>>]
    /\ UNCHANGED <<coord, db, lifecycle>>

\* initializeBots has ended and every account of the partition has a
\* Ready bot in the table
InitWorker ==
    /\ MAX_QUEUE_SIZE = MaxQueueSize
    /\ ALLOW_REFRESH = FALSE
    /\ InitCoord
    /\ accounts = [u \in Users |-> u]
    /\ bots = [u \in Users |-> "ready"]
    /\ throttledAccounts = {}
    /\ disabled = {}
    /\ started = NoLogin
    /\ initRun = NoRun
    /\ hc = [k \in 1..MaxHealthChecks |-> NoRun]
    /\ sd = [k \in 1..MaxShutdowns |-> NoShutdown]
    /\ completed = 0
    /\ exited = FALSE
    /\ reconnect = [u \in Users |-> NewReconnect]
    /\ failedAccounts = [u \in Users |-> "none"]
    /\ lastFailure = [u \in Users |-> "none"]
    /\ obs = [sent |-> <<>>, job |-> [u \in Users |-> 0],
              handled |-> [a \in Assets |-> 0],
              terminal |-> [a \in Assets |-> 0]]
    /\ item = <<>>
    /\ assetRows = <<>>
    /\ historyRows = <<>>
    /\ handler = <<>>

NextWorker ==
    \/ \E a \in Assets : inspectItemMessage(a)
    \/ \E u \in Users : onInspectResult(u)
    \/ \E u \in Users : onInspectRejected(u)
    \/ \E u \in Users : onCooldownEnd(u)
    \/ \E u \in Users : onDisconnected(u)
    \/ \E u \in Users : onError(u)
    \/ \E u \in Users : onReconnected(u)
    \/ \E u \in Users : onMaxReconnectAttemptsReached(u)
    \/ onGetStats

SpecWorker == InitWorker /\ [][NextWorker]_vars

\* Every inspect a bot has started ends: with a result, or at the latest
\* with the inspect timeout (spec 4.1), unless the transport drops first; a
\* cooldown ends when its timer fires.
SpecWorkerFair ==
    /\ SpecWorker
    /\ \A u \in Users : WF_vars(onInspectResult(u) \/ onInspectRejected(u))
    /\ \A u \in Users : WF_vars(onCooldownEnd(u))

\* ------------------------------------------------------------------------
\* Properties

\* the inspectItem messages for asset a that are on their way to a shard
DownFor(a) ==
    {p \in UNION {{<<s, i>> : i \in 1..Len(down[s])} : s \in Shards} :
        down[p[1]][p[2]] = a}

\* the bots that are inspecting asset a
BusyWith(a) == {b \in Bots : bot[b].st = "busy" /\ bot[b].a = a}

\* inspects for asset a that were dispatched and have not completed
InFlight(a) == Cardinality(BusyWith(a)) + Cardinality(DownFor(a))

\* C1: for every assetId, in every reachable state, at most one inspect is
\* dispatched and not yet completed across all shards, whatever the
\* interleaving of the inspectItem calls.
C1_OneInFlightPerAsset == \A a \in Assets : InFlight(a) <= 1

\* two calls that missed the cache wait on the same pending request while a
\* bot inspects their asset
C1_Witness ==
    \E c, d \in Calls :
        /\ c # d
        /\ call[c].pc = "wait" /\ call[d].pc = "wait"
        /\ call[c].a = call[d].a
        /\ call[c].a \in DOMAIN pending
        /\ pending[call[c].a].w = {c, d}
        /\ BusyWith(call[c].a) # {}

\* C2: a bot is handed an inspect only while it is Ready, so no bot ever
\* has two inspects outstanding.
C2_OnlyReadyBotInspects ==
    [][\A b \in Bots :
          /\ bot'[b].n <= 1
          /\ bot'[b].n > bot[b].n => bot[b].st = "ready" /\ bot[b].n = 0]_vars

\* a second request waits at a shard whose bot is busy
C2_Witness ==
    \E b \in Bots :
        bot[b].st = "busy" /\ bot[b].n = 1 /\ down[ShardOf(b)] # <<>>

\* the step in which the admission of call c is decided
Decided(c) ==
    /\ call[c].pc \in {"new", "cache"}
    /\ call'[c].pc \in {"wait", "done"}
    /\ call'[c].res # "cached"

\* C3: the queue never holds more than MAX_QUEUE_SIZE entries; a call that
\* misses the cache is admitted when the queue holds fewer than
\* MAX_QUEUE_SIZE entries and rejected with 429 when it holds
\* MAX_QUEUE_SIZE, under any interleaving.
C3_AdmissionByCapacity ==
    [][/\ size(queue') <= MAX_QUEUE_SIZE
       /\ \A c \in Calls :
             Decided(c) =>
                IF size(queue) < MAX_QUEUE_SIZE
                THEN call'[c].pc = "wait" /\ call'[c].a \in DOMAIN queue'
                ELSE call'[c].res = "e429" /\ queue' = queue]_vars

\* the MAX_QUEUE_SIZE-th submission waits in a full queue and the next one
\* was rejected
C3_Witness ==
    /\ size(queue) = MAX_QUEUE_SIZE
    /\ \E c, d \in Calls :
          /\ call[c].pc = "wait" /\ call[c].a \in DOMAIN queue
          /\ call[d].res = "e429"

\* C4: every admitted reply=true call is settled no later than QUEUE_TIMEOUT
\* after its admission, whatever the worker manager or the store does.
C4_SettledByDeadline ==
    \A c \in Calls :
        (call[c].reply /\ call[c].pc \in {"wait", "then"} /\ call[c].res = "none")
            => call[c].t >= 0

\* C5: no queue entry stays resident past its deadline.
C5_NoEntryPastDeadline ==
    \A a \in DOMAIN queue : queue[a].age <= QUEUE_TIMEOUT

\* C6: a result that arrives after the deadline of the request has expired
\* is dropped: it is not delivered, not counted and causes no write.
C6_LateResultDropped ==
    \A c \in Calls : ~(call[c].pc = "then" /\ call[c].res = "e504")

\* C7: a refresh=false call for an asset whose record is stored is answered
\* from the record when the lookup does not fail: both cached counters are
\* incremented, nothing is enqueued and nothing is dispatched.
C7_CacheHitAnswers ==
    [][\A c \in Calls :
          (/\ call[c].pc = "cache" /\ call'[c].pc # "cache"
           /\ call[c].a \in assets
           /\ ~call'[c].cacheErr)
          => /\ call'[c].res = "cached"
             /\ cached' = cached + 1
             /\ mgrCached' = mgrCached + 1
             /\ UNCHANGED <<queue, pending, down, up, bot>>]_vars

\* a call completed successfully and a later call for the same asset was
\* answered from the cache
C7_Witness ==
    \E c, d \in Calls :
        /\ c # d
        /\ call[c].a = call[d].a
        /\ call[c].res = "ok"
        /\ call[d].res = "cached"

\* C8: a submission for an asset that has a resident entry coalesces onto
\* it, and the completion of another caller does not remove the entry a
\* caller still waits on before its own deadline.
C8_WaiterKeepsEntry ==
    \A c \in Calls :
        (call[c].pc = "wait" /\ call[c].res = "none" /\ call[c].t > 0)
            => call[c].a \in DOMAIN queue

\* C9: a submission rejected with 429 adds no entry, starts no timer, sends
\* nothing to the worker manager or a shard and leaves the success, failed
\* and timeouts counters unchanged.
C9_QueueFullHasNoEffect ==
    [][\A c \in Calls :
          (call[c].res # "e429" /\ call'[c].res = "e429")
          => /\ UNCHANGED <<queue, pending, down, up, bot>>
             /\ UNCHANGED <<success, failed, timeouts>>
             /\ ~call'[c].armed /\ call'[c].t = -1]_vars

\* a call was rejected and its asset has no entry
C9_Witness ==
    \E c \in Calls : call[c].res = "e429" /\ call[c].a \notin DOMAIN queue

\* C10: a request that reaches a shard with no Ready bot is answered at once
\* with inspectError (NoBotsReady) for its asset, and no bot is invoked.
C10_NoBotsReadyAtOnce ==
    [][\A s \in Shards :
          (/\ down[s] # <<>> /\ down'[s] = Tail(down[s])
           /\ \A b \in BotsOf(s) : bot[b].st # "ready")
          => /\ bot' = bot
             /\ up'[s] = Append(up[s], [type |-> "inspectError",
                                        a |-> Head(down[s]),
                                        error |-> "NoBotsReady"])]_vars

\* the answer of a shard without a Ready bot is on its way to the manager
C10_Witness ==
    \E s \in Shards :
        /\ up[s] # <<>>
        /\ Head(up[s]).error = "NoBotsReady"
        /\ \A b \in BotsOf(s) : bot[b].st # "ready"

C13_BackgroundAck ==
    [][\A c \in Calls :
          /\ (Decided(c) /\ ~call'[c].reply /\ call'[c].pc = "wait")
             => /\ call'[c].res = "ack"
                /\ call'[c].a \in DOMAIN queue'
                /\ call'[c].a \in DOMAIN pending'
                /\ c \in pending'[call'[c].a].w
          /\ call[c].res = "ack" => call'[c].res = "ack"]_vars

\* the acknowledgement was returned and the inspect of the asset failed
C13_Witness ==
    \E c \in Calls :
        /\ call[c].res = "ack" /\ call[c].pc = "done"
        /\ call[c].a \notin assets
        /\ call[c].a \notin DOMAIN pending

\* C14: with ALLOW_REFRESH false a refresh=true request for a stored asset
\* is answered from the cache: the call consults the cache.
C14_RefreshNeedsAllowRefresh ==
    [][\A c \in Calls :
          (/\ call[c].pc = "new" /\ call'[c].pc # "new"
           /\ ~ALLOW_REFRESH
           /\ call'[c].a \in assets)
          => call'[c].pc = "cache"]_vars

C16_CacheErrorIsMiss ==
    [][\A c \in Calls :
          (call[c].pc = "cache" /\ call'[c].pc # "cache" /\ call'[c].cacheErr)
          => /\ cached' = cached /\ mgrCached' = mgrCached
             /\ IF size(queue) >= MAX_QUEUE_SIZE
                THEN call'[c].res = "e429"
                ELSE /\ call'[c].pc = "wait"
                     /\ call'[c].res \in {"none", "ack"}
                     /\ call'[c].a \in DOMAIN queue'
                     /\ call'[c].a \in DOMAIN pending']_vars

\* the lookup failed for an asset that is stored and the request waits for
\* its inspect
C16_Witness ==
    \E c \in Calls :
        call[c].cacheErr /\ call[c].pc = "wait" /\ call[c].a \in assets

\* the logins for user u that are in progress
Logins(u) ==
    Cardinality({k \in 1..MaxHealthChecks : hc[k].pc = "login" /\ UserOf(hc[k]) = u})
    + (IF initRun.pc = "login" /\ UserOf(initRun) = u THEN 1 ELSE 0)

\* C17: in a shard there is at most one Bot per username that is
\* initialising or registered, under every interleaving of initializeBots
\* and the health checks.
C17_OneBotPerUsername ==
    \A u \in Users :
        Logins(u) + (IF bots[u] \in {"ready", "busy"} THEN 1 ELSE 0) <= 1

\* C18: initialisation logs an account in at most MAX_RETRIES times, and no
\* login is started, by initialisation or by a health check, for an account
\* whose initialisation ended with ACCOUNT_DISABLED or whose throttle has
\* not expired.
C18_NoLoginAfterDisabledOrThrottled ==
    /\ started.by = "init" => initRun.retryCount < MAX_RETRIES
    /\ started.by # "none" =>
          started.u \notin disabled /\ started.u \notin throttledAccounts

\* C19: a run of shutdown calls destroy() on every bot of the table, and
\* the completed message is sent once, by a run all of whose destroy()
\* calls have settled, whether fulfilled or rejected.
C19_CompletedAfterAllSettled ==
    [][/\ \A k \in 1..MaxShutdowns :
             (sd[k].pc = "idle" /\ sd'[k].pc # "idle")
             => /\ sd'[k].left = {u \in Users : bots[u] # "none"}
                /\ \A u \in sd'[k].left : bots'[u] = "destroyed"
       /\ completed' # completed
             => /\ completed = 0 /\ completed' = 1
                /\ \E k \in 1..MaxShutdowns :
                      /\ sd[k].pc # "done" /\ sd'[k].pc = "done"
                      /\ sd'[k].left = {}]_vars

\* the completed message was sent by a run one of whose destroy() calls
\* failed, while another run still waits
C19_Witness ==
    /\ completed = 1
    /\ \E k, j \in 1..MaxShutdowns :
          /\ sd[k].pc = "done" /\ sd[k].failed
          /\ sd[j].pc = "destroying"

\* C20: once shutdown has begun no inspect is handed to a bot.
C20_NoDispatchAfterShutdown ==
    [][(\E k \in 1..MaxShutdowns : sd[k].pc # "idle")
          => \A u \in Users : bots'[u] = "busy" => bots[u] = "busy"]_vars

\* a classification was made
Classified == DOMAIN obs # {} /\ "type" \in DOMAIN obs

\* C25: without a prior asset record the history type is given by the
\* origin alone: 8 TRADED_UP, 4 DROPPED, 1 PURCHASED_INGAME, 2 UNBOXED,
\* 3 CRAFTED, anything else UNKNOWN.
C25_SourceByOrigin ==
    (Classified /\ ~Found(obs.history)) =>
        LET o == obs.response.origin IN
        /\ o = 8 => obs.type = "TRADED_UP"
        /\ o = 4 => obs.type = "DROPPED"
        /\ o = 1 => obs.type = "PURCHASED_INGAME"
        /\ o = 2 => obs.type = "UNBOXED"
        /\ o = 3 => obs.type = "CRAFTED"
        /\ o \notin {8, 4, 1, 2, 3} => obs.type = "UNKNOWN"

\* a dropped item with stickers and a keychain and no prior record
C25_Witness ==
    /\ Classified /\ ~Found(obs.history)
    /\ obs.response.origin = 4 /\ obs.type = "DROPPED"
    /\ obs.response.stickers # Arr(<<>>) /\ obs.response.keychains # Arr(<<>>)

\* the owner stored in the prior asset record, and the owner of the request
PriorOwner == obs.history.ms
NewOwner == toNumber(obs.inspectData.ms)
IsUser(n) == startsWith(Digits(n), SteamPrefix)

\* C26: with a prior asset record of another owner the type is TRADE when
\* the prior owner's id starts with 7656 and MARKET_BUY otherwise.
C26_OwnerChanged ==
    (Classified /\ Found(obs.history) /\ PriorOwner # NewOwner) =>
        obs.type = IF IsUser(PriorOwner) THEN "TRADE" ELSE "MARKET_BUY"

\* C27: with a prior asset record owned by a user and a result owned by a
\* market proxy the type is MARKET_LISTING.
C27_MarketListing ==
    (Classified /\ Found(obs.history) /\ IsUser(PriorOwner) /\ ~IsUser(NewOwner))
        => obs.type = "MARKET_LISTING"

\* C28: with a prior asset record of the same owner the type is the sticker
\* change when the sticker comparison reports one, else the keychain change
\* when the keychain comparison reports one.
C28_SameOwnerChanges ==
    (Classified /\ Found(obs.history) /\ PriorOwner = NewOwner) =>
        LET sc == detectStickerChanges(obs.response.stickers, obs.history.stickers)
            kc == detectKeychainChanges(obs.response.keychains, obs.history.keychains)
        IN /\ sc # "null" => obs.type = sc
           /\ (sc = "null" /\ kc # "null") => obs.type = kc

\* ---- unique id

Identified == DOMAIN obs # {} /\ "idx" \in DOMAIN obs

\* a paint value with null, absent and 0 taken for 0
Normal(v) == IF v \in {Undef, Null, 0} THEN 0 ELSE v

NormalTuple(r) ==
    <<Normal(r.paintseed), Normal(r.paintindex), Normal(r.paintwear),
      Normal(r.defindex)>>

\* C21: the unique id of a result is the digest of its paint seed, paint
\* index, paint wear and definition index alone, null or absent taken for 0,
\* joined by dashes in that order: two results of the same normalised four
\* values have the same id whatever their other fields, and the id written
\* with the asset record and with the history record of one result is the same.
C21_UniqueIdOfPaint ==
    Identified =>
        /\ obs.idx = sha1Prefix8(joinDash(NormalTuple(obs.x)))
        /\ obs.idy = sha1Prefix8(joinDash(NormalTuple(obs.y)))
        /\ NormalTuple(obs.x) = NormalTuple(obs.y) => obs.idx = obs.idy
        /\ obs.asset.uniqueId = obs.idx
        /\ obs.history.uniqueId = obs.idx

\* two results of different items and origins, one with an absent seed and a
\* null wear and the other with zeros, get one id
C21_Witness ==
    /\ Identified
    /\ obs.x.itemid # obs.y.itemid
    /\ obs.x.origin # obs.y.origin
    /\ obs.x.paintseed = Undef /\ obs.x.paintwear = Null
    /\ obs.y.paintseed = 0 /\ obs.y.paintwear = 0
    /\ obs.x.paintindex = 1 /\ obs.y.paintindex = 1
    /\ obs.idx = obs.idy
    /\ obs.history.uniqueId = obs.asset.uniqueId

\* ---- the stores

Began == DOMAIN handler # {}

\* the asset records of an id, the history records of an asset
assetRowsOf(rows, uniqueId) ==
    Cardinality({i \in 1..Len(rows) : rows[i].uniqueId = uniqueId})

historyRowsOf(rows, assetId) ==
    Cardinality({i \in 1..Len(rows) : rows[i].assetId = assetId})

\* the handlings of the result of item a that have returned it
Handled(a) == {h \in Handlers : handler[h].pc = "done" /\ handler[h].a = a}

\* C22: once a result has been handled there is exactly one asset record of
\* its unique id and at most one history record of its asset, however many
\* identical results were handled, and no step of a handling that began after
\* an identical result had been handled changes the number of asset records
\* or of history records.
C22_IdempotentUpsert ==
    [][/\ \A a \in 1..NumAssets :
             Handled(a)' # {} =>
                /\ assetRowsOf(assetRows', uniqueIdOf(item[a])) = 1
                /\ historyRowsOf(historyRows', a) <= 1
       /\ \A h \in Handlers :
             (handler[h].after /\ handler'[h] # handler[h]) =>
                /\ Len(assetRows') = Len(assetRows)
                /\ Len(historyRows') = Len(historyRows)]_vars

\* two identical results were handled one after the other, the first with a
\* history record: one asset record and one history record are stored
C22_Witness ==
    /\ Began
    /\ handler[1].pc = "done" /\ handler[2].pc = "done"
    /\ handler[1].a = handler[2].a
    /\ handler[2].after
    /\ Len(assetRows) = 1
    /\ Len(historyRows) = 1

\* C23: every handling of a successful result that has ended has upserted
\* the asset record, whether or not it wrote a history record; a history
\* record exists only of a result with a paint seed, a paint wear and a paint
\* index; the history records stored are never changed or removed.
C23_AssetAlwaysHistoryAppendOnly ==
    [][/\ \A h \in Handlers :
             handler'[h].pc \in {"done", "failed"} => handler'[h].saved
       /\ \A i \in 1..Len(historyRows') :
             LET response == item[historyRows'[i].assetId] IN
             /\ response.paintseed \notin {Undef, Null}
             /\ response.paintwear \notin {Undef, Null}
             /\ response.paintindex \notin {Undef, Null}
       /\ Len(historyRows') >= Len(historyRows)
       /\ SubSeq(historyRows', 1, Len(historyRows)) = historyRows]_vars

\* C24: there are never two history records of one asset, and no handling
\* fails because another handling of the same asset inserted the history
\* record between its lookup and its insert.
C24_OneHistoryNoLoser ==
    Began =>
        /\ \A a \in 1..NumAssets : historyRowsOf(historyRows, a) <= 1
        /\ \A h \in Handlers : ~(handler[h].pc = "failed" /\ ~handler[h].saved)

\* ---- health check

\* a bot in Error or Disconnected with no reconnect scheduled, not permanently
\* failed, of an account that is not throttled
NeedsReconnect(u) ==
    /\ bots[u] \in {"error", "disconnected"}
    /\ reconnect[u].scheduled = 0
    /\ ~reconnect[u].permanentlyFailed
    /\ u \notin throttledAccounts

C30_RetryAfterCooldown ==
    [][/\ started'.by = "hc" =>
             /\ bots'[started'.u] = "none"
             /\ failedAccounts'[started'.u] # "recent"
             /\ lastFailure'[started'.u] # "recent"
       /\ started'.walk =>
             ((\E j \in 1..Len(accounts) :
                  /\ bots[accounts[j]] = "none"
                  /\ accounts[j] \notin throttledAccounts
                  /\ failedAccounts[accounts[j]] # "recent"
                  /\ lastFailure[accounts[j]] # "recent")
              => started'.by = "hc")]_vars

\* ---- sticker and keychain comparison

Compared(what) ==
    DOMAIN obs # {} /\ "change" \in DOMAIN obs /\ obs.of = what

\* two stickers are the same sticker at the same place
SameSticker(c, p) ==
    /\ c.slot = p.slot /\ c.sticker_id = p.sticker_id
    /\ c.offset_x = p.offset_x /\ c.offset_y = p.offset_y
    /\ c.offset_z = p.offset_z /\ c.rotation = p.rotation

\* C31: for two sticker lists the comparison answers STICKER_APPLY when the
\* current list is longer, STICKER_REMOVE when it is shorter, and for lists of
\* one length STICKER_CHANGE when some current sticker has no match in the
\* previous list, STICKER_SCRAPE when the wear of a matched sticker is
\* greater than before, and no change when every current sticker has a match
\* of equal wear.
C31_StickerChanges ==
    Compared("stickers") =>
        LET cur == obs.current.elems
            prev == obs.previous.elems
        IN /\ Len(cur) > Len(prev) => obs.change = "STICKER_APPLY"
           /\ Len(cur) < Len(prev) => obs.change = "STICKER_REMOVE"
           /\ Len(cur) = Len(prev) =>
                 /\ (\E i \in 1..Len(cur) :
                        \A j \in 1..Len(prev) : ~SameSticker(cur[i], prev[j]))
                    => obs.change = "STICKER_CHANGE"
                 /\ (\E i \in 1..Len(cur), j \in 1..Len(prev) :
                        SameSticker(cur[i], prev[j]) /\ cur[i].wear > prev[j].wear)
                    => obs.change = "STICKER_SCRAPE"
                 /\ (\A i \in 1..Len(cur) : \E j \in 1..Len(prev) :
                        SameSticker(cur[i], prev[j]) /\ cur[i].wear = prev[j].wear)
                    => obs.change = "null"

\* the properties of an object, whatever their order
Properties(object) == {object[k] : k \in 1..Len(object)}

\* two lists hold structurally equal objects at every place
StructurallyEqual(cur, prev) ==
    /\ Len(cur) = Len(prev)
    /\ \A i \in 1..Len(cur) : Properties(cur[i]) = Properties(prev[i])

TimerFires(c) ==
    /\ timeouts' = timeouts + 1
    /\ call[c].armed /\ call[c].t = 0
    /\ ~call'[c].armed

\* C33: the timer of a request acts on that request only: it does not fire,
\* and so does not count a timeout, for a background request whose inspect
\* has completed, and it does not remove the queue entry that a later request
\* for the same asset was given after the first one completed.
C33_TimerActsOnItsRequest ==
    [][\A c \in Calls :
          TimerFires(c) =>
             /\ ~(~call[c].reply /\ call[c].pc = "done")
             /\ (call[c].pc = "done" => queue' = queue)]_vars

\* C34: an admitted reply=true request is counted in one of success, failed
\* and timeouts only: once its success is counted the end of its handling
\* counts no failure, and once its timeout is counted the settling of its
\* inspect counts neither a success nor a failure.
C34_OneOutcomeCounter ==
    [][\A c \in Calls :
          call[c].reply =>
             /\ (call[c].pc = "then" /\ call'[c].pc = "done")
                   => failed' = failed
             /\ (call[c].pc = "wait" /\ call[c].res = "e504"
                 /\ call'[c].pc # "wait")
                   => (success' = success /\ failed' = failed)]_vars

\* ---- the reports of a shard

C36_StatusIsTheBotsState ==
    \A i \in 1..Len(obs.sent) :
        obs.sent[i].type = "botStatusChange" =>
            bots[obs.sent[i].username] = obs.sent[i].status

\* C39: in every stats snapshot the per-state counts add up to totalBots
\* and, for each state, the rows of botDetails with that status are as many
\* as the count of that state.
C39_StatsPartition ==
    \A i \in 1..Len(obs.sent) :
        LET m == obs.sent[i] IN
        m.type = "stats" =>
            /\ m.readyBots + m.busyBots + m.cooldownBots + m.errorBots
                  + m.disconnectedBots = m.totalBots
            /\ \A st \in {"ready", "busy", "cooldown", "error", "disconnected"} :
                  Cardinality({u \in DOMAIN m.botDetails : m.botDetails[u] = st})
                     = CASE st = "ready" -> m.readyBots
                         [] st = "busy" -> m.busyBots
                         [] st = "cooldown" -> m.cooldownBots
                         [] st = "error" -> m.errorBots
                         [] OTHER -> m.disconnectedBots

\* ---- the order of the reads and writes of one handling

\* C37: within one handling the prior record is looked up, and the history
\* record (if any) is written, before the asset is upserted: the upsert is
\* made by a handling that is past its lookup, and once a handling has
\* upserted its asset the prior record it classified with does not change
\* and it adds no history record.
C37_ReadBeforeWrite ==
    [][\A h \in Handlers :
          /\ (~handler[h].saved /\ handler'[h].saved) =>
                /\ handler[h].pc = "saveAsset"
                /\ historyRows' = historyRows
                /\ handler'[h].history = handler[h].history
          /\ (handler[h].saved /\ handler'[h] # handler[h]) =>
                /\ handler'[h].saved
                /\ handler'[h].history = handler[h].history
                /\ historyRows' = historyRows
                /\ assetRows' = assetRows]_vars

\* a handling that found a prior record wrote its history record and then
\* its asset record
C37_Witness ==
    \E h \in Handlers :
        /\ handler[h].pc = "done"
        /\ handler[h].saved
        /\ Found(handler[h].history)
        /\ \E i \in 1..Len(historyRows) :
              historyRows[i].assetId = toNumber(responseOf(h).itemid)
        /\ \E i \in 1..Len(assetRows) :
              assetRows[i].assetId = toNumber(responseOf(h).itemid)

\* ---- the partition of a shard

\* C38: when the initialisation of user u ends with ACCOUNT_DISABLED,
\* exactly the credential line of u leaves the shard's account list: every
\* other account, also one whose username begins with that of u, stays in
\* the list.
C38_DropsOnlyTheDisabledAccount ==
    [][\A u \in Users :
          (u \notin disabled /\ u \in disabled') =>
              accounts' = SelectSeq(accounts, LAMBDA v : v # u)]_vars

\* ---- the stats of the coordinator

\* C40: in every stats() snapshot the current queue size reported is the
\* number of entries resident in the admission queue, and so the sum of the
\* high, normal and low priority counts reported.
C40_StatsQueueSize ==
    /\ stats.current = size(queue)
    /\ stats.current = stats.priorities

====
